---- MODULE Spec2Model ----
(***************************************************************************)
(* Notty: the block editor (NoteEditor with ParagraphBlock / HeaderBlock), *)
(* the markdown header classifier, the nested-document update helper and   *)
(* the in-memory notes backend (handlers/note.go).                         *)
(* Text is a sequence of one-character strings.                            *)
(***************************************************************************)
EXTENDS Integers, Sequences, FiniteSets, TLC

VARIABLES note, now, editValue, headerDetection, tree, call, result,
          notes, nextID, response, acting, loaded, pc, reg,
          notesState, loading, error, selectedNote, viewMode, saving, calls,
          event

vars == <<note, now, editValue, headerDetection, tree, call, result,
          notes, nextID, response, acting, loaded, pc, reg,
          notesState, loading, error, selectedNote, viewMode, saving, calls,
          event>>

\* The variables of the clients of the backend
clientVars == <<acting, loaded>>

\* The position and the locals of the goroutines that serve requests
raceVars == <<pc, reg>>

\* The state of useNotes (notesState is its notes), of App and of the
\* NoteEditor form, the API calls in flight and the last call that settled
appVars == <<notesState, loading, error, selectedNote, viewMode, saving, calls,
            event>>

(* ------------------------------ bounds --------------------------------- *)
\* MaxBlocks: a block is added only to a document shorter than this.
\* MaxClock: the last reading of Date.now().  MaxHashes, MaxTail: the texts
\* offered to the classifier.  MaxDocLen, MaxSiblings: the documents offered
\* to the update operations.  MaxNotes: a note is created only in a store
\* with fewer notes than this.  MaxCreated: the last id CreateNote hands out.
\* MaxShared: the notes that the callers of the backend create and share.
\* MaxCalls: the API calls of the App that are in flight at a time.
MaxBlocks == 2
MaxClock == 1
MaxHashes == 7
MaxTail == 3
MaxDocLen == 2
MaxSiblings == 2
MaxNotes == 2
MaxCreated == 3
MaxShared == 1
MaxCalls == 2

(* ------------------------------- text ---------------------------------- *)
\* JavaScript WhiteSpace and LineTerminator code points, as far as the
\* alphabet of the model goes: \s and String.prototype.trim treat both alike,
\* the regular expression's dot leaves the line terminators out.
IsLineTerminator(c) == c \in {"\n", "\r"}

IsWhiteSpace(c) == c \in {" ", "\t"} \/ IsLineTerminator(c)

\* text.trim()
trimNoop(text) == text

trim(text) ==
    LET keep == {i \in 1..Len(text) : ~IsWhiteSpace(text[i])}
    IN  IF keep = {} THEN <<>>
        ELSE LET first == CHOOSE i \in keep : \A j \in keep : i <= j
                 last == CHOOSE i \in keep : \A j \in keep : j <= i
             IN  SubSeq(text, first, last)

\* The upper repetition count of #{1,6}
MaxHeaderLevel == 6

\* All the ways /^(#{1,6})\s+(.+)$/ can split s: k hashes, w white space
\* characters, then at least one character, none of them a line terminator,
\* up to the end of the input (no m flag, so $ is the end of the input).
HeaderSplitsUpTo(s, maxLevel) ==
    {kw \in (1..maxLevel) \X (1..Len(s)) :
        /\ kw[1] + kw[2] < Len(s)
        /\ \A i \in 1..kw[1] : s[i] = "#"
        /\ \A i \in (kw[1] + 1)..(kw[1] + kw[2]) : IsWhiteSpace(s[i])
        /\ \A i \in (kw[1] + kw[2] + 1)..Len(s) : ~IsLineTerminator(s[i])}

\* s.match(/^(#{1,6})\s+(.+)$/): both quantifiers are greedy, so the match
\* found is the one with the most hashes and then the most white space.
HeaderMatchUpTo(s, maxLevel) ==
    LET splits == HeaderSplitsUpTo(s, maxLevel)
    IN  IF splits = {} THEN [matched |-> FALSE, hashes |-> <<>>, rest |-> <<>>]
        ELSE LET kw == CHOOSE a \in splits : \A b \in splits :
                            \/ b[1] < a[1]
                            \/ (b[1] = a[1] /\ b[2] <= a[2])
             IN  [matched |-> TRUE,
                  hashes |-> SubSeq(s, 1, kw[1]),
                  rest |-> SubSeq(s, kw[1] + kw[2] + 1, Len(s))]

headerMatchSeven(s) == HeaderMatchUpTo(s, MaxHeaderLevel + 1)

headerMatch(s) == HeaderMatchUpTo(s, MaxHeaderLevel)

NoLevel == 0

NotHeader == [isHeader |-> FALSE, level |-> NoLevel, content |-> <<>>]

detectHeaderMarkdown(text) ==
    LET trimmed == trim(text)
        m == headerMatch(trimmed)
    IN  IF m.matched
        THEN [isHeader |-> TRUE, level |-> Len(m.hashes), content |-> m.rest]
        ELSE NotHeader

(* ------------------------- the note and its blocks --------------------- *)
Paragraph(id, content) ==
    [id |-> id, type |-> "paragraph", content |-> content, level |-> NoLevel]

InitialNote ==
    [id |-> "1",
     title |-> "My First Real Note",
     userId |-> "user1",
     createdAt |-> 0,
     updatedAt |-> 0,
     document |-> <<
        Paragraph("block1",
            <<"T", "r", "y", " ", "t", "y", "p", "i", "n", "g", " ", "'", "#",
              " ", "M", "y", " ", "H", "e", "a", "d", "e", "r", "'", " ", "a",
              "n", "d", " ", "p", "r", "e", "s", "s", " ", "E", "n", "t", "e",
              "r", "!">>),
        Paragraph("block2",
            <<"O", "r", " ", "t", "r", "y", " ", "'", "#", "#", " ", "S", "m",
              "a", "l", "l", "e", "r", " ", "H", "e", "a", "d", "e", "r", "'",
              " ", "f", "o", "r", " ", "H", "2">>),
        Paragraph("block3",
            <<"R", "e", "g", "u", "l", "a", "r", " ", "p", "a", "r", "a", "g",
              "r", "a", "p", "h", " ", "t", "e", "x", "t", " ", "s", "t", "a",
              "y", "s", " ", "a", "s", " ", "p", "a", "r", "a", "g", "r", "a",
              "p", "h">>)
     >>]

updateBlockOthers(n, blockId, newContent, date) ==
    LET upd(block) == IF block.id # blockId
                      THEN [block EXCEPT !.content = newContent]
                      ELSE block
    IN  [n EXCEPT !.document = [i \in 1..Len(n.document) |-> upd(n.document[i])],
                  !.updatedAt = date]

\* setNote(currentNote => ({...currentNote, document: ..., updatedAt: new Date()}))
updateBlock(n, blockId, newContent, date) ==
    LET upd(block) == IF block.id = blockId
                      THEN [block EXCEPT !.content = newContent]
                      ELSE block
    IN  [n EXCEPT !.document = [i \in 1..Len(n.document) |-> upd(n.document[i])],
                  !.updatedAt = date]

convertToHeaderNoLevel(n, blockId, level, content, date) ==
    LET conv(block) == IF block.id = blockId
                       THEN [block EXCEPT !.type = "header", !.content = content]
                       ELSE block
    IN  [n EXCEPT !.document = [i \in 1..Len(n.document) |-> conv(n.document[i])],
                  !.updatedAt = date]

convertToHeader(n, blockId, level, content, date) ==
    LET conv(block) == IF block.id = blockId
                       THEN [block EXCEPT !.type = "header",
                                          !.content = content,
                                          !.level = level]
                       ELSE block
    IN  [n EXCEPT !.document = [i \in 1..Len(n.document) |-> conv(n.document[i])],
                  !.updatedAt = date]

\* `block-${Date.now()}`
NewBlockId(date) == "block-" \o ToString(date)

NewBlock(date) == Paragraph(NewBlockId(date), <<>>)

\* document.findIndex(...): the 0-based index of the first match, or -1
findIndex(document, blockId) ==
    IF \E i \in 1..Len(document) : document[i].id = blockId
    THEN (CHOOSE i \in 1..Len(document) :
            /\ document[i].id = blockId
            /\ \A j \in 1..(i - 1) : document[j].id # blockId) - 1
    ELSE -1

\* newDocument.splice(start, 0, item) for 0 <= start <= length
splice(document, start, item) ==
    SubSeq(document, 1, start) \o <<item>> \o SubSeq(document, start + 1, Len(document))

addBlockAfter(n, afterBlockId, date) ==
    LET newBlock == NewBlock(date)
        blockIndex == findIndex(n.document, afterBlockId)
    IN  [n EXCEPT !.document = splice(n.document, blockIndex + 1, newBlock),
                  !.updatedAt = date]

deleteBlockAtFirstMatch(n, blockId, date) ==
    LET blockIndex == findIndex(n.document, blockId)
    IN  [n EXCEPT !.document = SubSeq(@, 1, blockIndex) \o
                               SubSeq(@, blockIndex + 2, Len(@)),
                  !.updatedAt = date]

deleteBlock(n, blockId, date) ==
    LET keep(block) == block.id # blockId
    IN  [n EXCEPT !.document = SelectSeq(n.document, keep), !.updatedAt = date]

addBlockAtEndUnstamped(n, date) ==
    [n EXCEPT !.document = Append(n.document, NewBlock(date))]

addBlockAtEnd(n, date) ==
    [n EXCEPT !.document = Append(n.document, NewBlock(date)), !.updatedAt = date]

(* ------------------ the nested document of the design ------------------ *)
\* A block of the nested document: metadata and children are optional
\* (hasMetadata, hasChildren say whether the key is there).
NoMetadata == [level |-> NoLevel, checked |-> FALSE]

TreeBlock(id, type, content, hasChildren, children) ==
    [id |-> id, type |-> type, content |-> content,
     hasMetadata |-> FALSE, metadata |-> NoMetadata,
     hasChildren |-> hasChildren, children |-> children]

\* { ...block, ...updates } for updates: Partial<Block> carrying the keys in
\* updates.keys
Merge(block, updates) ==
    [block EXCEPT
        !.content = IF "content" \in updates.keys THEN updates.content ELSE @,
        !.type = IF "type" \in updates.keys THEN updates.type ELSE @,
        !.hasMetadata = IF "metadata" \in updates.keys THEN TRUE ELSE @,
        !.metadata = IF "metadata" \in updates.keys THEN updates.metadata ELSE @]

RECURSIVE updateBlockInDocumentMergingParents(_, _, _)
updateBlockInDocumentMergingParents(document, targetId, updates) ==
    LET upd(block) ==
            IF block.id = targetId THEN Merge(block, updates)
            ELSE IF block.hasChildren
                 THEN [Merge(block, updates) EXCEPT !.children =
                          updateBlockInDocumentMergingParents(@, targetId, updates)]
                 ELSE block
    IN  [i \in 1..Len(document) |-> upd(document[i])]

updateBlockInDocumentTopLevel(document, targetId, updates) ==
    LET upd(block) == IF block.id = targetId THEN Merge(block, updates) ELSE block
    IN  [i \in 1..Len(document) |-> upd(document[i])]

RECURSIVE updateBlockInDocument(_, _, _)
updateBlockInDocument(document, targetId, updates) ==
    LET upd(block) ==
            IF block.id = targetId THEN Merge(block, updates)
            ELSE IF block.hasChildren
                 THEN [block EXCEPT !.children =
                          updateBlockInDocument(@, targetId, updates)]
                 ELSE block
    IN  [i \in 1..Len(document) |-> upd(document[i])]

(* ---------------------- the in-memory notes backend -------------------- *)
serverVars == <<notes, nextID, response>>

\* time.Time{}, the value of a time field that was never set: it is before
\* every reading of the clock.
ZeroTime == -1

\* What c.Bind makes of a JSON body that carries only a title: every other
\* field of the note has the zero value of its type.
BoundNote(title) ==
    [id |-> 0, title |-> title, userId |-> "", isPublic |-> FALSE,
     document |-> <<>>, createdAt |-> ZeroTime, updatedAt |-> ZeroTime]

\* The path parameter after strconv.Atoi, and the request body after c.Bind
NoParam == [err |-> FALSE, id |-> 0]

NoBody == [malformed |-> FALSE, note |-> BoundNote(<<>>)]

NoResponse ==
    [op |-> "none", param |-> NoParam, body |-> NoBody, status |-> "none",
     message |-> "", notes |-> <<>>]

\* c.JSON(status, ...) answering the request op with its param and body: the
\* notes sent back, or the error / message text.
JSON(op, param, body, status, message, sent) ==
    [op |-> op, param |-> param, body |-> body, status |-> status,
     message |-> message, notes |-> sent]

\* var notes []models.Note; var nextID int = 1
InitStore ==
    /\ notes = <<>>
    /\ nextID = 1
    /\ response = NoResponse

\* The users who call the backend, and what each of them has on the screen:
\* nobody has called yet and nobody has loaded a note.
Callers == {"user1", "user2"}

InitClients ==
    /\ acting = ""
    /\ loaded = [c \in Callers |-> <<>>]

\* JavaScript null, for error
Null == ""

\* The last API call that settled, for which id, whether its promise
\* resolved and what the function of useNotes returned; NoEvent after any
\* other step of App
NoEvent == [op |-> "", id |-> 0, ok |-> TRUE, returned |-> ""]

\* An API call in flight: the function of api.ts with its arguments, what the
\* handler that made it captured (the id of its selectedNote, 0 for null,
\* and whether the form that awaits it is still mounted), and how far the
\* call is: sent, or answered with the response of the backend.
Call(op, id, title, selected, mounted) ==
    [op |-> op, id |-> id, title |-> title, selected |-> selected,
     mounted |-> mounted, phase |-> "sent", status |-> "", message |-> "",
     payload |-> <<>>]

\* useNotes and App after the first render and its effect: loadNotes has
\* called getNotes.
InitApp ==
    /\ notesState = <<>>
    /\ loading = TRUE
    /\ error = Null
    /\ selectedNote = <<>>
    /\ viewMode = "view"
    /\ saving = FALSE
    /\ calls = <<Call("getNotes", 0, <<>>, 0, FALSE)>>
    /\ event = NoEvent

\* The goroutines the server runs the handlers of two requests in
Goroutines == {"g1", "g2"}

\* No request has arrived: the locals body (the request), note, the loaded
\* value of nextID and the loaded slice are not set.
InitRace ==
    /\ pc = [g \in Goroutines |-> "Bind"]
    /\ reg = [g \in Goroutines |->
                [body |-> NoBody, note |-> BoundNote(<<>>), nextID |-> 0,
                 notes |-> <<>>, status |-> ""]]

\* for i, note := range notes { if note.ID == id ... }: the first index with
\* the id, 0 when the loop ends without one
IndexOfIDOrFirst(id) ==
    IF \E i \in 1..Len(notes) : notes[i].id = id
    THEN CHOOSE i \in 1..Len(notes) :
            /\ notes[i].id = id
            /\ \A j \in 1..(i - 1) : notes[j].id # id
    ELSE IF Len(notes) > 0 THEN 1 ELSE 0

IndexOfID(id) ==
    IF \E i \in 1..Len(notes) : notes[i].id = id
    THEN CHOOSE i \in 1..Len(notes) :
            /\ notes[i].id = id
            /\ \A j \in 1..(i - 1) : notes[j].id # id
    ELSE 0

GetNotes ==
    /\ response' = JSON("GetNotes", NoParam, NoBody, "StatusOK", "", notes)
    /\ UNCHANGED <<notes, nextID>>

\* CreateNote numbering the note by the length of the slice instead of nextID
CreateNoteCountingNotes(body) ==
    IF body.malformed
    THEN /\ response' = JSON("CreateNote", NoParam, body, "StatusBadRequest",
                             "Invalid JSON", <<>>)
         /\ UNCHANGED <<notes, nextID>>
    ELSE IF body.note.title = <<>>
    THEN /\ response' = JSON("CreateNote", NoParam, body, "StatusBadRequest",
                             "Title is required", <<>>)
         /\ UNCHANGED <<notes, nextID>>
    ELSE LET created == [body.note EXCEPT !.id = Len(notes) + 1, !.createdAt = now]
         IN  /\ nextID' = nextID + 1
             /\ notes' = Append(notes, created)
             /\ response' = JSON("CreateNote", NoParam, body, "StatusCreated",
                                 "", <<created>>)

CreateNote(body) ==
    IF body.malformed
    THEN /\ response' = JSON("CreateNote", NoParam, body, "StatusBadRequest",
                             "Invalid JSON", <<>>)
         /\ UNCHANGED <<notes, nextID>>
    ELSE IF body.note.title = <<>>
    THEN /\ response' = JSON("CreateNote", NoParam, body, "StatusBadRequest",
                             "Title is required", <<>>)
         /\ UNCHANGED <<notes, nextID>>
    ELSE LET created == [body.note EXCEPT !.id = nextID, !.createdAt = now]
         IN  /\ nextID' = nextID + 1
             /\ notes' = Append(notes, created)
             /\ response' = JSON("CreateNote", NoParam, body, "StatusCreated",
                                 "", <<created>>)

GetNote(param) ==
    /\ UNCHANGED <<notes, nextID>>
    /\ response' =
          IF param.err
          THEN JSON("GetNote", param, NoBody, "StatusBadRequest",
                    "Invalid note ID", <<>>)
          ELSE IF IndexOfID(param.id) # 0
          THEN JSON("GetNote", param, NoBody, "StatusOK", "",
                    <<notes[IndexOfID(param.id)]>>)
          ELSE JSON("GetNote", param, NoBody, "StatusNotFound",
                    "Note not found", <<>>)

UpdateNoteTrustingBody(param, body) ==
    IF param.err
    THEN /\ response' = JSON("UpdateNote", param, body, "StatusBadRequest",
                             "Invalid note ID", <<>>)
         /\ UNCHANGED <<notes, nextID>>
    ELSE IF body.malformed
    THEN /\ response' = JSON("UpdateNote", param, body, "StatusBadRequest",
                             "Invalid JSON", <<>>)
         /\ UNCHANGED <<notes, nextID>>
    ELSE IF body.note.title = <<>>
    THEN /\ response' = JSON("UpdateNote", param, body, "StatusBadRequest",
                             "Title is required", <<>>)
         /\ UNCHANGED <<notes, nextID>>
    ELSE IF IndexOfID(param.id) # 0
    THEN LET i == IndexOfID(param.id)
             updatedNote == body.note
         IN  /\ notes' = [notes EXCEPT ![i] = updatedNote]
             /\ response' = JSON("UpdateNote", param, body, "StatusOK", "",
                                 <<updatedNote>>)
             /\ UNCHANGED nextID
    ELSE /\ response' = JSON("UpdateNote", param, body, "StatusNotFound",
                             "Note not found", <<>>)
         /\ UNCHANGED <<notes, nextID>>

UpdateNoteKeepingTitle(param, body) ==
    IF param.err
    THEN /\ response' = JSON("UpdateNote", param, body, "StatusBadRequest",
                             "Invalid note ID", <<>>)
         /\ UNCHANGED <<notes, nextID>>
    ELSE IF body.malformed
    THEN /\ response' = JSON("UpdateNote", param, body, "StatusBadRequest",
                             "Invalid JSON", <<>>)
         /\ UNCHANGED <<notes, nextID>>
    ELSE IF body.note.title = <<>>
    THEN /\ response' = JSON("UpdateNote", param, body, "StatusBadRequest",
                             "Title is required", <<>>)
         /\ UNCHANGED <<notes, nextID>>
    ELSE IF IndexOfID(param.id) # 0
    THEN LET i == IndexOfID(param.id)
             updatedNote == [body.note EXCEPT !.id = param.id,
                                              !.createdAt = notes[i].createdAt,
                                              !.title = notes[i].title]
         IN  /\ notes' = [notes EXCEPT ![i] = updatedNote]
             /\ response' = JSON("UpdateNote", param, body, "StatusOK", "",
                                 <<updatedNote>>)
             /\ UNCHANGED nextID
    ELSE /\ response' = JSON("UpdateNote", param, body, "StatusNotFound",
                             "Note not found", <<>>)
         /\ UNCHANGED <<notes, nextID>>

UpdateNote(param, body) ==
    IF param.err
    THEN /\ response' = JSON("UpdateNote", param, body, "StatusBadRequest",
                             "Invalid note ID", <<>>)
         /\ UNCHANGED <<notes, nextID>>
    ELSE IF body.malformed
    THEN /\ response' = JSON("UpdateNote", param, body, "StatusBadRequest",
                             "Invalid JSON", <<>>)
         /\ UNCHANGED <<notes, nextID>>
    ELSE IF body.note.title = <<>>
    THEN /\ response' = JSON("UpdateNote", param, body, "StatusBadRequest",
                             "Title is required", <<>>)
         /\ UNCHANGED <<notes, nextID>>
    ELSE IF IndexOfID(param.id) # 0
    THEN LET i == IndexOfID(param.id)
             updatedNote == [body.note EXCEPT !.id = param.id,
                                              !.createdAt = notes[i].createdAt]
         IN  /\ notes' = [notes EXCEPT ![i] = updatedNote]
             /\ response' = JSON("UpdateNote", param, body, "StatusOK", "",
                                 <<updatedNote>>)
             /\ UNCHANGED nextID
    ELSE /\ response' = JSON("UpdateNote", param, body, "StatusNotFound",
                             "Note not found", <<>>)
         /\ UNCHANGED <<notes, nextID>>

\* DeleteNote cutting the front of the slice instead of the note it found
DeleteNoteAtFront(param) ==
    IF param.err
    THEN /\ response' = JSON("DeleteNote", param, NoBody, "StatusBadRequest",
                             "Invalid note ID", <<>>)
         /\ UNCHANGED <<notes, nextID>>
    ELSE IF IndexOfID(param.id) # 0
    THEN /\ notes' = Tail(notes)
         /\ response' = JSON("DeleteNote", param, NoBody, "StatusOK",
                             "Note deleted successfully", <<>>)
         /\ UNCHANGED nextID
    ELSE /\ response' = JSON("DeleteNote", param, NoBody, "StatusNotFound",
                             "Note not found", <<>>)
         /\ UNCHANGED <<notes, nextID>>

DeleteNote(param) ==
    IF param.err
    THEN /\ response' = JSON("DeleteNote", param, NoBody, "StatusBadRequest",
                             "Invalid note ID", <<>>)
         /\ UNCHANGED <<notes, nextID>>
    ELSE IF IndexOfID(param.id) # 0
    THEN LET i == IndexOfID(param.id)
         IN  /\ notes' = SubSeq(notes, 1, i - 1) \o SubSeq(notes, i + 1, Len(notes))
             /\ response' = JSON("DeleteNote", param, NoBody, "StatusOK",
                                 "Note deleted successfully", <<>>)
             /\ UNCHANGED nextID
    ELSE /\ response' = JSON("DeleteNote", param, NoBody, "StatusNotFound",
                             "Note not found", <<>>)
         /\ UNCHANGED <<notes, nextID>>

(* ------------------------------ inputs --------------------------------- *)
Hashes(k) == [i \in 1..k |-> "#"]

\* The texts committed in a block of the editor: plain, a level 1 and a level 2
\* header, and one hash too many.
EditTexts ==
    { <<"a">>,
      <<"#", " ", "a">>,
      <<"#", "#", " ", "a">>,
      Hashes(MaxHeaderLevel + 1) \o <<" ", "a">> }

\* The ids handed to the by-id operations: every id a block can have, and one
\* that no block has.
BlockIds ==
    {"block1", "block2", "block3", "nope"} \cup {NewBlockId(t) : t \in 0..MaxClock}

(* ------------------------------ the editor ----------------------------- *)
NoDetection == [done |-> FALSE, block |-> 0, value |-> NotHeader]

NoCall == [op |-> "none"]

InitProbe ==
    /\ editValue = <<>>
    /\ headerDetection = NoDetection
    /\ tree = <<>>
    /\ call = NoCall
    /\ result = <<>>

Init ==
    /\ note = InitialNote
    /\ now = 0
    /\ InitProbe
    /\ InitStore
    /\ InitClients
    /\ InitRace
    /\ InitApp

probeVars == <<editValue, headerDetection, tree, call, result>>

Tick ==
    /\ now < MaxClock
    /\ now' = now + 1
    /\ UNCHANGED <<note, probeVars, serverVars, clientVars, raceVars, appVars>>

\* ParagraphBlock's onBlur / Enter handler on the block at position i, with
\* text in the textarea.
ParagraphCommit(i, text) ==
    /\ i \in 1..Len(note.document)
    /\ note.document[i].type # "header"
    /\ LET d == detectHeaderMarkdown(text)
       IN  note' = IF d.isHeader
                   THEN convertToHeader(note, note.document[i].id,
                                        d.level, d.content, now)
                   ELSE updateBlock(note, note.document[i].id, text, now)

\* HeaderBlock's onBlur / Enter handler.
HeaderCommit(i, text) ==
    /\ i \in 1..Len(note.document)
    /\ note.document[i].type = "header"
    /\ note' = updateBlock(note, note.document[i].id, text, now)

EditParagraph ==
    /\ \E i \in 1..MaxBlocks, text \in EditTexts : ParagraphCommit(i, text)
    /\ UNCHANGED <<now, probeVars, serverVars, clientVars, raceVars, appVars>>

EditHeader ==
    /\ \E i \in 1..MaxBlocks, text \in EditTexts : HeaderCommit(i, text)
    /\ UNCHANGED <<now, probeVars, serverVars, clientVars, raceVars, appVars>>

AddBlockAfter ==
    /\ Len(note.document) < MaxBlocks
    /\ \E afterBlockId \in BlockIds : note' = addBlockAfter(note, afterBlockId, now)
    /\ UNCHANGED <<now, probeVars, serverVars, clientVars, raceVars, appVars>>

AddBlockAtEnd ==
    /\ Len(note.document) < MaxBlocks
    /\ note' = addBlockAtEnd(note, now)
    /\ UNCHANGED <<now, probeVars, serverVars, clientVars, raceVars, appVars>>

DeleteBlock ==
    /\ \E blockId \in BlockIds : note' = deleteBlock(note, blockId, now)
    /\ UNCHANGED <<now, probeVars, serverVars, clientVars, raceVars, appVars>>

Next ==
    \/ Tick
    \/ EditParagraph
    \/ EditHeader
    \/ AddBlockAfter
    \/ AddBlockAtEnd
    \/ DeleteBlock

Spec == Init /\ [][Next]_vars

(* ------------------------ claims about the editor ---------------------- *)
Ids(document) == [i \in 1..Len(document) |-> document[i].id]

\* C1: the top-level document of the note is never empty (deleting the sole
\* remaining block leaves one empty paragraph).
C1_DocumentNeverEmpty == Len(note.document) >= 1

\* C2: addBlockAfter with an afterBlockId that no block has appends the new
\* block at the end: every block keeps its index and the new block is last.
C2_UnresolvedAfterIdAppends ==
    [][\A afterBlockId \in BlockIds :
          (/\ \A i \in 1..Len(note.document) : note.document[i].id # afterBlockId
           /\ note' = addBlockAfter(note, afterBlockId, now))
          => note'.document = Append(note.document, NewBlock(now))]_vars

\* C3: the ids of the blocks of the document are pairwise distinct.
C3_BlockIdsDistinct ==
    \A i, j \in 1..Len(note.document) :
        i # j => note.document[i].id # note.document[j].id

\* C6: committing a text the classifier recognizes in the paragraph block at
\* position i turns that block into a header with the classified level and
\* content, keeps its id and position, and changes no other block.
C6_ConvertInPlace ==
    [][\A i \in 1..Len(note.document), text \in EditTexts :
          (detectHeaderMarkdown(text).isHeader /\ ParagraphCommit(i, text))
          => /\ Len(note'.document) = Len(note.document)
             /\ note'.document[i] =
                    [note.document[i] EXCEPT
                        !.type = "header",
                        !.content = detectHeaderMarkdown(text).content,
                        !.level = detectHeaderMarkdown(text).level]
             /\ \A j \in 1..Len(note.document) :
                    j # i => note'.document[j] = note.document[j]]_vars

\* C7: a header block stays a header of the same level for as long as it is
\* in the document, whatever is committed in any block.
C7_HeaderStaysHeader ==
    [][Ids(note'.document) = Ids(note.document)
          => \A i \in 1..Len(note.document) :
                note.document[i].type = "header"
                => /\ note'.document[i].type = "header"
                   /\ note'.document[i].level = note.document[i].level]_vars

\* C8: every header block of the document has a level in 1..6.
C8_HeaderLevelInRange ==
    \A i \in 1..Len(note.document) :
        note.document[i].type = "header"
        => note.document[i].level \in 1..MaxHeaderLevel

\* A paragraph became a header of level 2 and was then edited as a header.
C8_Witness ==
    \E i \in 1..Len(note.document) :
        /\ note.document[i].type = "header"
        /\ note.document[i].level = 2
        /\ note.document[i].content = <<"#", " ", "a">>

\* C11: addBlockAfter with an afterBlockId that resolves to the block at
\* index i puts the new block at index i+1 as it was created (empty paragraph
\* with its new id), keeps the earlier blocks at their indices, shifts the
\* later blocks by one, and looking the new id up afterwards finds the new
\* block.
C11_InsertedAfterTarget ==
    [][\A afterBlockId \in BlockIds :
          (/\ findIndex(note.document, afterBlockId) >= 0
           /\ note' = addBlockAfter(note, afterBlockId, now))
          => LET i == findIndex(note.document, afterBlockId) + 1
                 found == findIndex(note'.document, NewBlockId(now)) + 1
             IN  /\ Len(note'.document) = Len(note.document) + 1
                 /\ note'.document[i + 1] = NewBlock(now)
                 /\ \A j \in 1..i : note'.document[j] = note.document[j]
                 /\ \A j \in (i + 1)..Len(note.document) :
                        note'.document[j + 1] = note.document[j]
                 /\ found >= 1
                 /\ note'.document[found] = NewBlock(now)]_vars

\* C15: every block operation of the editor (updateBlock, convertToHeader,
\* addBlockAfter, addBlockAtEnd, deleteBlock) leaves the note's id, title,
\* userId and createdAt as they were and sets updatedAt to the time of the
\* operation; only document and updatedAt can differ afterwards.
C15_OnlyDocumentAndUpdatedAt ==
    [][now' = now
          => /\ note'.id = note.id
             /\ note'.title = note.title
             /\ note'.userId = note.userId
             /\ note'.createdAt = note.createdAt
             /\ note'.updatedAt = now]_vars

\* After the clock moved on, a block was added at the end of the document:
\* the document differs from the initial one and so does updatedAt.
C15_Witness ==
    /\ note.updatedAt > note.createdAt
    /\ Len(note.document) >= 1
    /\ note.document[Len(note.document)] = NewBlock(note.updatedAt)
    /\ [note EXCEPT !.document = InitialNote.document,
                    !.updatedAt = InitialNote.updatedAt] = InitialNote

(* --------------- the classifier on one committed text ------------------ *)
Alphabet == {"#", " ", "\n", "a"}

SeqsUpTo(S, n) == UNION {[1..m -> S] : m \in 0..n}

Pads == {<<>>, <<" ">>, <<"\n">>}

\* The texts in the textarea: an optional white space character, a run of
\* hashes, and a tail of any characters.
Texts ==
    {pad \o Hashes(k) \o tail :
        pad \in Pads, k \in 0..MaxHashes, tail \in SeqsUpTo(Alphabet, MaxTail)}

InitClassify ==
    /\ InitStore
    /\ InitClients
    /\ InitRace
    /\ InitApp
    /\ note = InitialNote
    /\ now = 0
    /\ editValue \in Texts
    /\ headerDetection = NoDetection
    /\ tree = <<>>
    /\ call = NoCall
    /\ result = <<>>

\* onBlur of the textarea of the paragraph block at position i
ParagraphBlur(i) ==
    /\ ~headerDetection.done
    /\ ParagraphCommit(i, editValue)
    /\ headerDetection' =
           [done |-> TRUE, block |-> i, value |-> detectHeaderMarkdown(editValue)]
    /\ UNCHANGED <<now, editValue, tree, call, result, serverVars, clientVars, raceVars, appVars>>

\* onKeyDown of the same textarea, for Enter without Shift
ParagraphEnter(i) ==
    /\ ~headerDetection.done
    /\ ParagraphCommit(i, editValue)
    /\ headerDetection' =
           [done |-> TRUE, block |-> i, value |-> detectHeaderMarkdown(editValue)]
    /\ UNCHANGED <<now, editValue, tree, call, result, serverVars, clientVars, raceVars, appVars>>

NextClassify ==
    \/ \E i \in 1..Len(note.document) : ParagraphBlur(i)
    \/ \E i \in 1..Len(note.document) : ParagraphEnter(i)

SpecClassify == InitClassify /\ [][NextClassify]_vars

\* s = p white space characters, k hashes, w white space characters, a
\* remainder that neither starts nor ends with white space and holds no line
\* terminator, and q white space characters.
HeaderShape(s, p, k, w, q) ==
    /\ k >= 1
    /\ w >= 1
    /\ p + k + w + q < Len(s)
    /\ \A i \in 1..p : IsWhiteSpace(s[i])
    /\ \A i \in (p + 1)..(p + k) : s[i] = "#"
    /\ \A i \in (p + k + 1)..(p + k + w) : IsWhiteSpace(s[i])
    /\ ~IsWhiteSpace(s[p + k + w + 1])
    /\ ~IsWhiteSpace(s[Len(s) - q])
    /\ \A i \in (p + k + w + 1)..(Len(s) - q) : ~IsLineTerminator(s[i])
    /\ \A i \in (Len(s) - q + 1)..Len(s) : IsWhiteSpace(s[i])

ShapeRest(s, p, k, w, q) == SubSeq(s, p + k + w + 1, Len(s) - q)

Shapes(s) ==
    LET leading == {p \in 0..Len(s) : \A i \in 1..p : IsWhiteSpace(s[i])}
        trailing == {q \in 0..Len(s) :
                        \A i \in (Len(s) - q + 1)..Len(s) : IsWhiteSpace(s[i])}
    IN  {x \in leading \X (1..MaxHeaderLevel) \X (1..Len(s)) \X trailing :
            HeaderShape(s, x[1], x[2], x[3], x[4])}

\* The raw text itself matches ^(#{1,6})\s+(.+)$
RawMatch(s) == HeaderMatchUpTo(s, MaxHeaderLevel)

\* C4 as stated: every text that matches ^(#{1,6})\s+(.+)$ is classified as a
\* heading whose level is the number of leading hashes and whose content is
\* the remainder after the white space.
C4_EveryMatchIsHeading ==
    headerDetection.done =>
        LET m == RawMatch(editValue)
        IN  m.matched =>
                headerDetection.value =
                    [isHeader |-> TRUE, level |-> Len(m.hashes), content |-> m.rest]

\* C4 amended: a text that, with the white space at its two ends removed, is
\* k hashes (1 <= k <= 6), white space and a remainder without line
\* terminators is classified as a heading of level k whose content is that
\* remainder.
C4_TrimmedMatchIsHeading ==
    headerDetection.done =>
        \A x \in Shapes(editValue) :
            headerDetection.value =
                [isHeader |-> TRUE,
                 level |-> x[2],
                 content |-> ShapeRest(editValue, x[1], x[2], x[3], x[4])]

\* A text padded with white space was committed and classified as a heading.
C4_Witness ==
    /\ headerDetection.done
    /\ headerDetection.value.isHeader
    /\ headerDetection.value.level = 3
    /\ \E x \in Shapes(editValue) : x[1] > 0 /\ x[4] > 0

\* C5 as stated: a committed raw text that does not itself match
\* ^(#{1,6})\s+(.+)$ yields no result, and the block stays a paragraph whose
\* content is the raw text.
C5_NoRawMatchKeepsParagraph ==
    (headerDetection.done /\ ~RawMatch(editValue).matched) =>
        /\ ~headerDetection.value.isHeader
        /\ note.document[headerDetection.block].type = "paragraph"
        /\ note.document[headerDetection.block].content = editValue

\* C5 amended: a committed raw text whose trimmed form does not match yields
\* no result, and the block stays a paragraph whose content is the raw text,
\* untrimmed.
C5_NoTrimmedMatchKeepsParagraph ==
    (headerDetection.done /\ Shapes(editValue) = {}) =>
        /\ ~headerDetection.value.isHeader
        /\ note.document[headerDetection.block].type = "paragraph"
        /\ note.document[headerDetection.block].content = editValue

\* Seven hashes, a space and a letter were committed and kept verbatim.
C5_Witness ==
    /\ headerDetection.done
    /\ editValue = Hashes(MaxHeaderLevel + 1) \o <<" ", "a">>
    /\ note.document[headerDetection.block].content = editValue
    /\ note.document[headerDetection.block].type = "paragraph"

(* ------------------- the update operations on one call ----------------- *)
Header(id, level, content) ==
    [id |-> id, type |-> "header", content |-> content, level |-> level]

\* Blocks of the editor's document: an initial block, or a block added at
\* clock reading 0, as a paragraph or as a header.
FlatBlocks ==
    {Paragraph(id, <<"a">>) : id \in {"block1", NewBlockId(0)}}
    \cup {Header(id, 1, <<"a">>) : id \in {"block1", NewBlockId(0)}}

\* The editor's documents: an initial id occurs at most once, an id made from
\* the clock may repeat.
FlatDocs ==
    {d \in SeqsUpTo(FlatBlocks, MaxDocLen) :
        Cardinality({i \in 1..Len(d) : d[i].id = "block1"}) <= 1}

TreeIds == {"t1", "t2"}

Leaves == {TreeBlock(id, "paragraph", <<"a">>, FALSE, <<>>) : id \in TreeIds}

Lists ==
    {TreeBlock(id, "bullet-list", <<>>, TRUE, children) :
        id \in TreeIds, children \in SeqsUpTo(Leaves, MaxSiblings)}

Outlines == {TreeBlock(id, "bullet-list", <<>>, TRUE, <<list>>) :
                id \in TreeIds, list \in Lists}

\* A block holding a list that holds one leaf, each with an id of its own.
Chain ==
    TreeBlock("t1", "bullet-list", <<>>, TRUE,
        <<TreeBlock("t2", "bullet-list", <<>>, TRUE,
            <<TreeBlock("t3", "paragraph", <<"a">>, FALSE, <<>>)>>)>>)

\* A todo block, with metadata { checked } or with no metadata
Todo(id, hasMetadata, checked) ==
    [TreeBlock(id, "todo", <<"a">>, FALSE, <<>>) EXCEPT
        !.hasMetadata = hasMetadata,
        !.metadata = [level |-> NoLevel, checked |-> checked]]

\* Documents with todo blocks: unchecked before a paragraph, checked, and
\* one without metadata inside a list.
TodoDocs ==
    { <<Todo("t1", TRUE, FALSE), TreeBlock("t2", "paragraph", <<"a">>, FALSE, <<>>)>>,
      <<Todo("t1", TRUE, TRUE)>>,
      <<TreeBlock("t1", "bullet-list", <<>>, TRUE, <<Todo("t2", FALSE, FALSE)>>)>> }

\* Nested documents: lists of leaves at the top level, one block holding
\* a list that holds leaves, the chain after a leaf, and the documents with
\* todo blocks.
TreeDocs ==
    SeqsUpTo(Leaves \cup Lists, MaxDocLen)
        \cup {<<b>> : b \in Outlines}
        \cup {<<Chain>>, <<TreeBlock("t4", "paragraph", <<"a">>, FALSE, <<>>), Chain>>}
        \cup TodoDocs

\* What the checkbox of TodoBlock passes to onUpdate when it is clicked:
\* { metadata: { ...block.metadata, checked: e.target.checked } }, where the
\* box showed checked || false before the click.
toggle(block) ==
    [keys |-> {"metadata"}, content |-> <<>>, type |-> "paragraph",
     metadata |-> [block.metadata EXCEPT !.checked = ~block.metadata.checked]]

\* What the callers pass as updates: { content }, { metadata }, a type change
\* with its metadata, and nothing.
Patches ==
    { [keys |-> {"content"}, content |-> <<"b">>, type |-> "paragraph",
       metadata |-> NoMetadata],
      [keys |-> {"metadata"}, content |-> <<>>, type |-> "paragraph",
       metadata |-> [level |-> NoLevel, checked |-> TRUE]],
      [keys |-> {"type", "metadata"}, content |-> <<>>, type |-> "heading",
       metadata |-> [level |-> 1, checked |-> FALSE]],
      [keys |-> {}, content |-> <<>>, type |-> "paragraph",
       metadata |-> NoMetadata] }

InitUpdate ==
    /\ InitStore
    /\ InitClients
    /\ InitRace
    /\ InitApp
    /\ now = 0
    /\ editValue = <<>>
    /\ headerDetection = NoDetection
    /\ call = NoCall
    /\ result = <<>>
    /\ \/ /\ tree = <<>>
          /\ \E d \in FlatDocs : note = [InitialNote EXCEPT !.document = d]
       \/ /\ tree \in TreeDocs \ {<<>>}
          /\ note = InitialNote

CallUpdateBlock ==
    /\ call = NoCall
    /\ tree = <<>>
    /\ \E blockId \in {"block1", NewBlockId(0), "nope"} :
          /\ call' = [op |-> "updateBlock", id |-> blockId]
          /\ result' = updateBlock(note, blockId, <<"b">>, now)
    /\ UNCHANGED <<note, now, editValue, headerDetection, tree, serverVars, clientVars, raceVars, appVars>>

CallConvertToHeader ==
    /\ call = NoCall
    /\ tree = <<>>
    /\ \E blockId \in {"block1", NewBlockId(0), "nope"} :
          /\ call' = [op |-> "convertToHeader", id |-> blockId]
          /\ result' = convertToHeader(note, blockId, 2, <<"b">>, now)
    /\ UNCHANGED <<note, now, editValue, headerDetection, tree, serverVars, clientVars, raceVars, appVars>>

CallUpdateBlockInDocument ==
    /\ call = NoCall
    /\ tree # <<>>
    /\ \E targetId \in TreeIds \cup {"t3", "nope"}, updates \in Patches :
          /\ call' = [op |-> "updateBlockInDocument", id |-> targetId,
                      updates |-> updates]
          /\ result' = updateBlockInDocument(tree, targetId, updates)
    /\ UNCHANGED <<note, now, editValue, headerDetection, tree, serverVars, clientVars, raceVars, appVars>>

CallDeleteBlock ==
    /\ call = NoCall
    /\ tree = <<>>
    /\ \E blockId \in {"block1", NewBlockId(0), "nope"} :
          /\ call' = [op |-> "deleteBlock", id |-> blockId]
          /\ result' = deleteBlock(note, blockId, now)
    /\ UNCHANGED <<note, now, editValue, headerDetection, tree, serverVars, clientVars, raceVars, appVars>>

CallAddBlockAfter ==
    /\ call = NoCall
    /\ tree = <<>>
    /\ \E afterBlockId \in {"block1", NewBlockId(0), "nope"} :
          /\ call' = [op |-> "addBlockAfter", id |-> afterBlockId]
          /\ result' = addBlockAfter(note, afterBlockId, now)
    /\ UNCHANGED <<note, now, editValue, headerDetection, tree, serverVars, clientVars, raceVars, appVars>>

\* The block that addBlockAfter has just added is deleted again, by its id.
CallDeleteAddedBlock ==
    /\ call.op = "addBlockAfter"
    /\ call' = [op |-> "deleteAddedBlock", id |-> NewBlockId(now)]
    /\ result' = deleteBlock(result, NewBlockId(now), now)
    /\ UNCHANGED <<note, now, editValue, headerDetection, tree, serverVars, clientVars, raceVars, appVars>>

\* The blocks of the document and of the children below them, depth first.
RECURSIVE Flatten(_)
Flatten(document) ==
    IF document = <<>> THEN <<>>
    ELSE <<Head(document)>> \o Flatten(Head(document).children)
             \o Flatten(Tail(document))

\* A click on the checkbox of a todo block: BlockRenderer shows a TodoBlock,
\* and so a checkbox, for the blocks of type todo only.
CallToggleTodo ==
    /\ call = NoCall
    /\ tree # <<>>
    /\ \E i \in 1..Len(Flatten(tree)) :
          /\ Flatten(tree)[i].type = "todo"
          /\ call' = [op |-> "toggleTodo", id |-> Flatten(tree)[i].id,
                      updates |-> toggle(Flatten(tree)[i])]
          /\ result' = updateBlockInDocument(tree, Flatten(tree)[i].id,
                                             toggle(Flatten(tree)[i]))
    /\ UNCHANGED <<note, now, editValue, headerDetection, tree, serverVars, clientVars, raceVars, appVars>>

NextUpdate ==
    \/ CallUpdateBlock
    \/ CallConvertToHeader
    \/ CallUpdateBlockInDocument
    \/ CallDeleteBlock
    \/ CallAddBlockAfter
    \/ CallDeleteAddedBlock
    \/ CallToggleTodo

SpecUpdate == InitUpdate /\ [][NextUpdate]_vars

\* The flat document in the shape of the nested one: no block has children.
AsTree(document) ==
    [i \in 1..Len(document) |->
        [id |-> document[i].id, hasChildren |-> FALSE, children |-> <<>>,
         fields |-> <<document[i].type, document[i].content, document[i].level>>]]

RECURSIVE TreeFields(_)
TreeFields(document) ==
    [i \in 1..Len(document) |->
        [id |-> document[i].id,
         hasChildren |-> document[i].hasChildren,
         children |-> TreeFields(document[i].children),
         fields |-> <<document[i].type, document[i].content,
                      document[i].hasMetadata, document[i].metadata>>]]

\* before and after have the same blocks with the same ids in the same order
\* at every level, a block with the target id has the children it had, and a
\* block with another id has the fields it had.
RECURSIVE SameButTarget(_, _, _)
SameButTarget(before, after, targetId) ==
    /\ Len(after) = Len(before)
    /\ \A i \in 1..Len(before) :
          /\ after[i].id = before[i].id
          /\ after[i].hasChildren = before[i].hasChildren
          /\ IF before[i].id = targetId
             THEN after[i].children = before[i].children
             ELSE /\ after[i].fields = before[i].fields
                  /\ SameButTarget(before[i].children, after[i].children, targetId)

HasBlock(document, id) == \E i \in 1..Len(document) : document[i].id = id

RECURSIVE HasBlockDeep(_, _)
HasBlockDeep(document, id) ==
    \E i \in 1..Len(document) :
        \/ document[i].id = id
        \/ HasBlockDeep(document[i].children, id)

C10_AbsentIdIsNoOp ==
    (call.op \in {"updateBlock", "convertToHeader"} /\ ~HasBlock(note.document, call.id))
        => result.document = note.document

\* convertToHeader was called with an absent id on a document that has blocks.
C10_Witness ==
    /\ call.op = "convertToHeader"
    /\ ~HasBlock(note.document, call.id)
    /\ Len(note.document) = MaxDocLen
    /\ result.document = note.document

\* The indices of the blocks of document whose id is not blockId.
OtherIndices(document, blockId) ==
    {i \in 1..Len(document) : document[i].id # blockId}

C13_DeleteUndoesInsert ==
    call.op = "deleteAddedBlock" => result.document = note.document

\* The blocks of the whole tree that have the id, in document order.
BlocksWithId(document, id) ==
    LET hasId(block) == block.id = id
    IN  SelectSeq(Flatten(document), hasId)

UniqueIds(document) ==
    \A i, j \in 1..Len(Flatten(document)) :
        i # j => Flatten(document)[i].id # Flatten(document)[j].id

MaxTitleLength == 255

Fill(n) == [i \in 1..n |-> "a"]

\* A time that no reading of the clock gives.
ForgedTime == MaxClock + 1

\* A body that carries every field of a note, with an id and a creation time
\* of the client's choosing, a title of the greatest valid length and a
\* document of one paragraph.
ForgedNote ==
    [id |-> 1, title |-> Fill(MaxTitleLength), userId |-> "user2",
     isPublic |-> TRUE, document |-> <<Paragraph("block1", <<"a">>)>>,
     createdAt |-> ForgedTime, updatedAt |-> ForgedTime]

\* A body that carries a document and nothing else: { "document": [...] }
DocumentOnly ==
    [malformed |-> FALSE,
     note |-> [BoundNote(<<>>) EXCEPT !.document = <<Paragraph("block2", <<"b">>)>>]]

\* The request bodies: JSON that does not parse, a body with no title, with a
\* document only, with a short title, with a title that is one character
\* too long, and the forged one.
Bodies ==
    { [malformed |-> TRUE, note |-> BoundNote(<<>>)],
      [malformed |-> FALSE, note |-> BoundNote(<<>>)],
      DocumentOnly,
      [malformed |-> FALSE, note |-> BoundNote(<<"a">>)],
      [malformed |-> FALSE, note |-> BoundNote(Fill(MaxTitleLength + 1))],
      [malformed |-> FALSE, note |-> ForgedNote] }

\* The :id path parameters: one that is not a number, and the ids the store
\* hands out.
Params ==
    {[err |-> TRUE, id |-> 0]} \cup {[err |-> FALSE, id |-> i] : i \in 1..MaxCreated}

ListNotes ==
    /\ GetNotes
    /\ UNCHANGED <<note, now, probeVars, clientVars, raceVars, appVars>>

PostNote ==
    /\ Len(notes) < MaxNotes
    /\ nextID <= MaxCreated
    /\ \E body \in Bodies : CreateNote(body)
    /\ UNCHANGED <<note, now, probeVars, clientVars, raceVars, appVars>>

ReadNote ==
    /\ \E param \in Params : GetNote(param)
    /\ UNCHANGED <<note, now, probeVars, clientVars, raceVars, appVars>>

PutNote ==
    /\ \E param \in Params, body \in Bodies : UpdateNote(param, body)
    /\ UNCHANGED <<note, now, probeVars, clientVars, raceVars, appVars>>

RemoveNote ==
    /\ \E param \in Params : DeleteNote(param)
    /\ UNCHANGED <<note, now, probeVars, clientVars, raceVars, appVars>>

NextServer ==
    \/ Tick
    \/ ListNotes
    \/ PostNote
    \/ ReadNote
    \/ PutNote
    \/ RemoveNote

SpecServer == Init /\ [][NextServer]_vars

(* ------------------------ claims about the backend --------------------- *)
\* C16: the note that a successful CreateNote returns has a newly allocated
\* id (no other stored note has it), the title and the owner of the request,
\* isPublic = false, createdAt = updatedAt, and a document of exactly one
\* block, a paragraph with empty content.
C16_CreateBuildsDefaultNote ==
    (response.op = "CreateNote" /\ response.status = "StatusCreated") =>
        LET created == response.notes[1]
        IN  /\ Cardinality({i \in 1..Len(notes) : notes[i].id = created.id}) = 1
            /\ created.title = response.body.note.title
            /\ created.userId = response.body.note.userId
            /\ created.isPublic = FALSE
            /\ created.createdAt = created.updatedAt
            /\ Len(created.document) = 1
            /\ created.document[1].type = "paragraph"
            /\ created.document[1].content = <<>>

\* The titles the spec rejects: empty, or longer than 255 characters.
TitleInvalid(title) == title = <<>> \/ Len(title) > MaxTitleLength

\* C17: a CreateNote or UpdateNote request whose title is empty or longer than
\* 255 characters is answered with a validation error (400) and leaves the
\* stored notes as they were; an accepted request with a valid title stores
\* that title in the note it created or updated.
C17_TitleValidated ==
    [][(/\ now' = now
        /\ response'.op \in {"CreateNote", "UpdateNote"}
        /\ ~response'.param.err
        /\ ~response'.body.malformed)
          => IF TitleInvalid(response'.body.note.title)
             THEN /\ response'.status = "StatusBadRequest"
                  /\ notes' = notes
             ELSE response'.status \in {"StatusCreated", "StatusOK"}
                  => \A i \in 1..Len(notes') :
                        notes'[i].id = response'.notes[1].id
                        => notes'[i].title = response'.body.note.title]_vars

\* C18: a note's id and createdAt are the server's: CreateNote stores the
\* next id of the counter and the time of the request whatever the body
\* carries, and no later request changes them: after an UpdateNote every
\* stored note has the id and createdAt it had, and after a DeleteNote the
\* notes that are left have theirs.
C18_IdAndCreatedAtFixed ==
    [][now' = now
          => /\ nextID' # nextID
                 => /\ notes'[Len(notes')].id = nextID
                    /\ notes'[Len(notes')].createdAt = now
             /\ \A i \in 1..Len(notes) :
                    i <= Len(notes') /\ Len(notes') >= Len(notes)
                    => /\ notes'[i].id = notes[i].id
                       /\ notes'[i].createdAt = notes[i].createdAt
             /\ Len(notes') < Len(notes)
                 => \A j \in 1..Len(notes') : \E i \in 1..Len(notes) :
                       /\ notes'[j].id = notes[i].id
                       /\ notes'[j].createdAt = notes[i].createdAt]_vars

\* The note with id 2, created after the clock moved on, was updated with a
\* body that carries another id and creation time: it took the body's title
\* and kept the id and the creation time the server gave it.
C18_Witness ==
    /\ response.op = "UpdateNote"
    /\ response.status = "StatusOK"
    /\ response.body.note = ForgedNote
    /\ \E i \in 1..Len(notes) :
          /\ notes[i] = response.notes[1]
          /\ notes[i].id = 2
          /\ notes[i].id # ForgedNote.id
          /\ notes[i].createdAt \in 1..MaxClock
          /\ notes[i].title = ForgedNote.title

\* The step is a GetNote, UpdateNote or DeleteNote request whose :id is a
\* number that no stored note has.
UnknownIdRequested ==
    /\ now' = now
    /\ response'.op \in {"GetNote", "UpdateNote", "DeleteNote"}
    /\ ~response'.param.err
    /\ \A i \in 1..Len(notes) : notes[i].id # response'.param.id

C20_LastWrittenListedFirst ==
    [][(/\ response'.op = "GetNotes"
        /\ response.op \in {"CreateNote", "UpdateNote"}
        /\ response.status \in {"StatusCreated", "StatusOK"})
          => /\ Len(response'.notes) >= 1
             /\ response'.notes[1] = response.notes[1]]_vars

(* ----------------------- the callers of the backend -------------------- *)
\* The body a caller sends to create a note of their own
CallerBody(c, title, public) ==
    [malformed |-> FALSE,
     note |-> [BoundNote(title) EXCEPT !.userId = c, !.isPublic = public]]

\* The note a caller sends back after editing the loaded one: a new title, or
\* a document of one paragraph.
Edited(n, field) ==
    IF field = "title"
    THEN [n EXCEPT !.title = <<"b">>]
    ELSE [n EXCEPT !.document = <<Paragraph("block1", <<"a">>)>>]

\* createNote(noteData) of the API client, called by c
CallerCreates(c) ==
    /\ Len(notes) < MaxShared
    /\ nextID <= MaxShared
    /\ \E public \in BOOLEAN : CreateNote(CallerBody(c, <<"a">>, public))
    /\ acting' = c
    /\ UNCHANGED <<note, now, probeVars, loaded, raceVars, appVars>>

\* getNote(id) of the API client, called by c: the note that comes back is
\* what c has loaded.
CallerLoads(c) ==
    /\ \E param \in Params : GetNote(param)
    /\ acting' = c
    /\ loaded' = IF response'.status = "StatusOK"
                 THEN [loaded EXCEPT ![c] = response'.notes]
                 ELSE loaded
    /\ UNCHANGED <<note, now, probeVars, raceVars, appVars>>

\* updateNote(id, noteData) of the API client, called by c with the loaded
\* note after an edit
CallerSaves(c) ==
    /\ loaded[c] # <<>>
    /\ \E field \in {"title", "document"} :
          UpdateNote([err |-> FALSE, id |-> loaded[c][1].id],
                     [malformed |-> FALSE, note |-> Edited(loaded[c][1], field)])
    /\ acting' = c
    /\ loaded' = IF response'.status = "StatusOK"
                 THEN [loaded EXCEPT ![c] = response'.notes]
                 ELSE loaded
    /\ UNCHANGED <<note, now, probeVars, raceVars, appVars>>

NextCallers ==
    \/ \E c \in Callers : CallerCreates(c)
    \/ \E c \in Callers : CallerLoads(c)
    \/ \E c \in Callers : CallerSaves(c)

SpecCallers == Init /\ [][NextCallers]_vars

\* The stored note with the id, as a sequence of none or one
Stored(id) ==
    LET hasId(n) == n.id = id
    IN  SelectSeq(notes, hasId)

\* C21: a request changes a note only when the caller is the note's owner,
\* and a note is returned only to its owner unless it is public: an UpdateNote
\* by another caller and a GetNote of a private note by another caller are
\* answered Forbidden and leave the stored notes unchanged.
C21_OnlyOwnerWritesAndReads ==
    [][(/\ now' = now
        /\ response'.op \in {"UpdateNote", "GetNote"}
        /\ Stored(response'.param.id) # <<>>
        /\ Stored(response'.param.id)[1].userId # acting'
        /\ \/ response'.op = "UpdateNote"
           \/ ~Stored(response'.param.id)[1].isPublic)
          => /\ response'.status = "StatusForbidden"
             /\ notes' = notes]_vars

C23_ToggleOnlyTodo ==
    /\ (/\ call.op = "updateBlockInDocument"
        /\ UniqueIds(tree)
        /\ BlocksWithId(tree, call.id) # <<>>
        /\ call.updates = toggle(BlocksWithId(tree, call.id)[1])
        /\ BlocksWithId(tree, call.id)[1].type # "todo")
           => result = tree
    /\ call.op = "toggleTodo"
           => LET before == BlocksWithId(tree, call.id)[1]
                  after == BlocksWithId(result, call.id)[1]
              IN  /\ after.metadata.checked = ~before.metadata.checked
                  /\ after.id = before.id
                  /\ after.type = before.type
                  /\ after.content = before.content

\* C24: an UpdateNote that carries only a document, sent for a stored note,
\* is accepted, replaces the stored document and leaves the stored title and
\* isPublic as they were.
C24_PartialUpdate ==
    [][(/\ now' = now
        /\ response'.op = "UpdateNote"
        /\ ~response'.param.err
        /\ response'.body = DocumentOnly
        /\ Stored(response'.param.id) # <<>>)
          => LET before == Stored(response'.param.id)[1]
                 hasId(n) == n.id = response'.param.id
                 after == SelectSeq(notes', hasId)[1]
             IN  /\ response'.status = "StatusOK"
                 /\ after.document = DocumentOnly.note.document
                 /\ after.title = before.title
                 /\ after.isPublic = before.isPublic]_vars

\* The stored notes with the id, in a store that is not yet the current one
StoredIn(store, id) ==
    LET hasId(n) == n.id = id IN SelectSeq(store, hasId)

\* C25: a successful CreateNote returns a note with the title of the request
\* and GetNote resolves its id to that note; a request that is not an
\* UpdateNote or a DeleteNote for the id of a stored note leaves the note that
\* id resolves to with its id and title; GetNote on a stored id answers with
\* the note the id resolves to.
C25_CreateThenRetrieve ==
    [][now' = now =>
        /\ response'.status = "StatusCreated"
              => /\ response'.notes[1].title = response'.body.note.title
                 /\ StoredIn(notes', response'.notes[1].id) = response'.notes
        /\ \A i \in 1..Len(notes) :
              (~(/\ response'.op \in {"UpdateNote", "DeleteNote"}
                 /\ ~response'.param.err
                 /\ response'.param.id = notes[i].id))
                => /\ StoredIn(notes', notes[i].id) # <<>>
                   /\ StoredIn(notes', notes[i].id)[1].title = Stored(notes[i].id)[1].title
        /\ (/\ response'.op = "GetNote"
            /\ ~response'.param.err
            /\ Stored(response'.param.id) # <<>>)
              => /\ response'.status = "StatusOK"
                 /\ response'.notes = <<Stored(response'.param.id)[1]>>
                 /\ response'.notes[1].id = response'.param.id]_vars

\* Note 1 is retrieved with its title after a second note was created and
\* deleted.
C25_Witness ==
    /\ response.op = "GetNote"
    /\ response.status = "StatusOK"
    /\ response.param.id = 1
    /\ response.notes[1].id = 1
    /\ response.notes[1].title = <<"a">>
    /\ response.notes[1].userId = ""
    /\ nextID = 3
    /\ Len(notes) = 1

\* C26: after every request the stored notes have pairwise distinct ids, all
\* smaller than nextID; nextID does not decrease; a note that was not stored
\* before the request has an id that no note had before (at least the nextID
\* of before), so the id of a deleted note is not handed out again; GetNote
\* on an id that is not stored answers NotFound.
C26_IdsNeverReused ==
    [][now' = now =>
        /\ \A i, j \in 1..Len(notes') : notes'[i].id = notes'[j].id => i = j
        /\ \A i \in 1..Len(notes') : notes'[i].id < nextID'
        /\ nextID' >= nextID
        /\ \A j \in 1..Len(notes') :
              StoredIn(notes, notes'[j].id) = <<>> => notes'[j].id >= nextID
        /\ (/\ response'.op = "GetNote"
            /\ ~response'.param.err
            /\ Stored(response'.param.id) = <<>>)
              => response'.status = "StatusNotFound"]_vars

\* Note 1 was deleted, a third note was created after that, and GetNote on
\* id 1 answers NotFound.
C26_Witness ==
    /\ Len(notes) = 2
    /\ notes[1].id = 2
    /\ notes[2].id = 3
    /\ nextID = 4
    /\ response.op = "GetNote"
    /\ response.param = [err |-> FALSE, id |-> 1]
    /\ response.status = "StatusNotFound"

(* ------------------- concurrent CreateNote requests --------------------- *)
\* The server runs each handler in the goroutine of its request, and
\* CreateNote reads and writes the package variables nextID and notes without
\* a lock.  The steps below are the reads and writes of CreateNote one by
\* one, so that those of two requests interleave.

\* The bodies of the two requests
RaceBodies ==
    { [malformed |-> FALSE, note |-> BoundNote(<<>>)],
      [malformed |-> FALSE, note |-> BoundNote(<<"a">>)],
      [malformed |-> FALSE, note |-> BoundNote(<<"b">>)] }

\* note := new(models.Note); c.Bind(note); if note.Title == "" { return 400 }
Bind(g) ==
    /\ pc[g] = "Bind"
    /\ \E body \in RaceBodies :
          IF body.note.title = <<>>
          THEN /\ pc' = [pc EXCEPT ![g] = "Done"]
               /\ reg' = [reg EXCEPT ![g].body = body,
                                     ![g].status = "StatusBadRequest"]
               /\ response' = JSON("CreateNote", NoParam, body,
                                   "StatusBadRequest", "Title is required", <<>>)
          ELSE /\ pc' = [pc EXCEPT ![g] = "AssignID"]
               /\ reg' = [reg EXCEPT ![g].body = body, ![g].note = body.note]
               /\ UNCHANGED response
    /\ UNCHANGED <<note, now, probeVars, notes, nextID, clientVars, appVars>>

\* note.ID = nextID
AssignID(g) ==
    /\ pc[g] = "AssignID"
    /\ reg' = [reg EXCEPT ![g].note.id = nextID]
    /\ pc' = [pc EXCEPT ![g] = "LoadNextID"]
    /\ UNCHANGED <<note, now, probeVars, serverVars, clientVars, appVars>>

\* nextID++, the read
LoadNextID(g) ==
    /\ pc[g] = "LoadNextID"
    /\ reg' = [reg EXCEPT ![g].nextID = nextID]
    /\ pc' = [pc EXCEPT ![g] = "StoreNextID"]
    /\ UNCHANGED <<note, now, probeVars, serverVars, clientVars, appVars>>

\* nextID++, the write; then note.CreatedAt = time.Now()
StoreNextID(g) ==
    /\ pc[g] = "StoreNextID"
    /\ nextID' = reg[g].nextID + 1
    /\ reg' = [reg EXCEPT ![g].note.createdAt = now]
    /\ pc' = [pc EXCEPT ![g] = "LoadNotes"]
    /\ UNCHANGED <<note, now, probeVars, notes, response, clientVars, appVars>>

\* notes = append(notes, *note), the read of the slice
LoadNotes(g) ==
    /\ pc[g] = "LoadNotes"
    /\ reg' = [reg EXCEPT ![g].notes = notes]
    /\ pc' = [pc EXCEPT ![g] = "StoreNotes"]
    /\ UNCHANGED <<note, now, probeVars, serverVars, clientVars, appVars>>

\* notes = append(notes, *note), the write of the longer slice; then
\* return c.JSON(http.StatusCreated, note)
StoreNotes(g) ==
    /\ pc[g] = "StoreNotes"
    /\ notes' = Append(reg[g].notes, reg[g].note)
    /\ reg' = [reg EXCEPT ![g].status = "StatusCreated"]
    /\ response' = JSON("CreateNote", NoParam, reg[g].body, "StatusCreated",
                        "", <<reg[g].note>>)
    /\ pc' = [pc EXCEPT ![g] = "Done"]
    /\ UNCHANGED <<note, now, probeVars, nextID, clientVars, appVars>>

NextRace ==
    \/ \E g \in Goroutines : Bind(g)
    \/ \E g \in Goroutines : AssignID(g)
    \/ \E g \in Goroutines : LoadNextID(g)
    \/ \E g \in Goroutines : StoreNextID(g)
    \/ \E g \in Goroutines : LoadNotes(g)
    \/ \E g \in Goroutines : StoreNotes(g)

SpecRace == Init /\ [][NextRace]_vars

\* C27: once two CreateNote requests handled concurrently have both
\* completed with 201, their notes have different ids and both are in the
\* store.
C27_ConcurrentCreatesBothStored ==
    (\A g \in Goroutines : pc[g] = "Done" /\ reg[g].status = "StatusCreated")
        => /\ reg["g1"].note.id # reg["g2"].note.id
           /\ \A g \in Goroutines : \E i \in 1..Len(notes) : notes[i] = reg[g].note

(* ------------------------- useNotes and App ----------------------------- *)
\* The handlers of App with the functions of useNotes they await.  An API
\* call is sent by the handler, served by the backend handler of its route,
\* and settled when its promise resolves or rejects: the code after the
\* await runs then, with the selectedNote and viewMode of the render the
\* handler was created in.

\* The notes the Sidebar shows a NoteCard for
Listed == IF loading THEN {} ELSE {notesState[i] : i \in DOMAIN notesState}

\* selectedNote?.id
SelectedId == IF selectedNote = <<>> THEN 0 ELSE selectedNote[1].id

\* NoteEditor is rendered in the modes edit and create only: a form that
\* awaits a save is gone once the mode is view.
Unmounted(cs) == [i \in DOMAIN cs |-> [cs[i] EXCEPT !.mounted = FALSE]]

Remove(cs, i) == SubSeq(cs, 1, i - 1) \o SubSeq(cs, i + 1, Len(cs))

Happened(op, id, ok, returned) ==
    [op |-> op, id |-> id, ok |-> ok, returned |-> returned]

handleNoteSelect ==
    /\ \E n \in Listed :
          /\ selectedNote' = <<n>>
          /\ event' = NoEvent
    /\ viewMode' = "view"
    /\ saving' = FALSE
    /\ calls' = Unmounted(calls)
    /\ UNCHANGED <<notesState, loading, error>>
    /\ UNCHANGED <<note, now, probeVars, serverVars, clientVars, raceVars>>

\* onEdit of a NoteCard, or of the NoteViewer that shows selectedNote
handleNoteEdit ==
    /\ \E n \in Listed \cup (IF viewMode = "view" /\ selectedNote # <<>>
                              THEN {selectedNote[1]} ELSE {}) :
          /\ selectedNote' = <<n>>
          /\ event' = NoEvent
    /\ viewMode' = "edit"
    /\ UNCHANGED <<notesState, loading, error, saving, calls>>
    /\ UNCHANGED <<note, now, probeVars, serverVars, clientVars, raceVars>>

\* handleNewNote without setSelectedNote(null)
handleNewNoteKeepingSelection ==
    /\ viewMode' = "create"
    /\ event' = NoEvent
    /\ UNCHANGED <<notesState, loading, error, selectedNote, saving, calls>>
    /\ UNCHANGED <<note, now, probeVars, serverVars, clientVars, raceVars>>

handleNewNote ==
    /\ selectedNote' = <<>>
    /\ viewMode' = "create"
    /\ event' = NoEvent
    /\ UNCHANGED <<notesState, loading, error, saving, calls>>
    /\ UNCHANGED <<note, now, probeVars, serverVars, clientVars, raceVars>>

\* handleNoteDelete up to its await: handleDeleteNote of useNotes sets error
\* to null and calls deleteNote of api.ts.
handleNoteDelete ==
    /\ Len(calls) < MaxCalls
    /\ \E n \in Listed :
          /\ n.id # 0
          /\ calls' = Append(calls, Call("deleteNote", n.id, <<>>, SelectedId, FALSE))
          /\ event' = NoEvent
    /\ error' = Null
    /\ UNCHANGED <<notesState, loading, selectedNote, viewMode, saving>>
    /\ UNCHANGED <<note, now, probeVars, serverVars, clientVars, raceVars>>

\* handleSubmit of NoteEditor and handleSaveNote up to its await: the form
\* is saving, and handleCreateNote or handleUpdateNote of useNotes sets error
\* to null and calls createNote or updateNote of api.ts.
handleSaveNote ==
    /\ Len(calls) < MaxCalls
    /\ ~saving
    /\ \/ /\ viewMode = "create"
          /\ calls' = Append(calls, Call("createNote", 0, <<"a">>, SelectedId, TRUE))
       \/ /\ viewMode = "edit"
          /\ SelectedId # 0
          /\ calls' = Append(calls, Call("updateNote", SelectedId, <<"b">>,
                                         SelectedId, TRUE))
    /\ saving' = TRUE
    /\ error' = Null
    /\ event' = NoEvent
    /\ UNCHANGED <<notesState, loading, selectedNote, viewMode>>
    /\ UNCHANGED <<note, now, probeVars, serverVars, clientVars, raceVars>>

handleCancel ==
    /\ viewMode \in {"edit", "create"}
    /\ selectedNote' = IF viewMode = "create" THEN <<>> ELSE selectedNote
    /\ viewMode' = "view"
    /\ saving' = FALSE
    /\ calls' = Unmounted(calls)
    /\ event' = NoEvent
    /\ UNCHANGED <<notesState, loading, error>>
    /\ UNCHANGED <<note, now, probeVars, serverVars, clientVars, raceVars>>

\* onDismiss of the ErrorBanner, shown while error is not null
clearError ==
    /\ error # Null
    /\ error' = Null
    /\ event' = NoEvent
    /\ UNCHANGED <<notesState, loading, selectedNote, viewMode, saving, calls>>
    /\ UNCHANGED <<note, now, probeVars, serverVars, clientVars, raceVars>>

\* The backend handles the request of a call and answers it.
Serve ==
    /\ \E i \in DOMAIN calls :
          /\ calls[i].phase = "sent"
          /\ \/ /\ calls[i].op = "getNotes"
                /\ GetNotes
             \/ /\ calls[i].op = "createNote"
                /\ Len(notes) < MaxShared
                /\ nextID <= MaxShared
                /\ CreateNote([malformed |-> FALSE, note |-> BoundNote(calls[i].title)])
             \/ /\ calls[i].op = "updateNote"
                /\ UpdateNote([err |-> FALSE, id |-> calls[i].id],
                              [malformed |-> FALSE, note |-> BoundNote(calls[i].title)])
             \/ /\ calls[i].op = "deleteNote"
                /\ DeleteNote([err |-> FALSE, id |-> calls[i].id])
          /\ calls' = [calls EXCEPT ![i].phase = "answered",
                                    ![i].status = response'.status,
                                    ![i].message = response'.message,
                                    ![i].payload = response'.notes]
    /\ UNCHANGED <<notesState, loading, error, selectedNote, viewMode, saving, event>>
    /\ UNCHANGED <<note, now, probeVars, clientVars, raceVars>>

\* handleResponse: the promise of the call resolves when the answer is ok
\* and rejects with the error of the answer when it is not; fetch rejects
\* when the request or its answer is lost.
Resolves(c, lost) == ~lost /\ c.status \in {"StatusOK", "StatusCreated"}

\* A rejection whose message is dropped
RejectionSwallowed(c, lost) == Null

Rejection(c, lost) == IF lost THEN "Failed to fetch" ELSE c.message

\* Whether the call can settle: it was answered, or it is lost.  A call that
\* settles has read its answer: no response is on its way after that.
Settles(c, lost) == lost \/ c.phase = "answered"

\* loadNotes after its await
loadNotes ==
    /\ \E i \in DOMAIN calls, lost \in BOOLEAN :
          /\ calls[i].op = "getNotes"
          /\ Settles(calls[i], lost)
          /\ IF Resolves(calls[i], lost)
             THEN /\ notesState' = calls[i].payload
                  /\ error' = error
             ELSE /\ notesState' = notesState
                  /\ error' = Rejection(calls[i], lost)
          /\ event' = Happened("getNotes", 0, Resolves(calls[i], lost), "")
          /\ calls' = Remove(calls, i)
    /\ loading' = FALSE
    /\ UNCHANGED <<selectedNote, viewMode, saving>>
    /\ response' = NoResponse
    /\ UNCHANGED <<note, now, probeVars, notes, nextID, clientVars, raceVars>>

\* handleCreateNote after its await, then handleSaveNote and handleSubmit
\* after theirs
handleCreateNote ==
    /\ \E i \in DOMAIN calls, lost \in BOOLEAN :
          /\ calls[i].op = "createNote"
          /\ Settles(calls[i], lost)
          /\ IF Resolves(calls[i], lost)
             THEN /\ notesState' = Append(notesState, calls[i].payload[1])
                  /\ error' = error
                  /\ selectedNote' = calls[i].payload
                  /\ viewMode' = "view"
                  /\ saving' = FALSE
                  /\ calls' = Unmounted(Remove(calls, i))
                  /\ event' = Happened("createNote", calls[i].payload[1].id, TRUE, "note")
             ELSE /\ notesState' = notesState
                  /\ error' = Rejection(calls[i], lost)
                  /\ UNCHANGED <<selectedNote, viewMode>>
                  /\ saving' = IF calls[i].mounted THEN FALSE ELSE saving
                  /\ calls' = Remove(calls, i)
                  /\ event' = Happened("createNote", 0, FALSE, "null")
    /\ UNCHANGED loading
    /\ response' = NoResponse
    /\ UNCHANGED <<note, now, probeVars, notes, nextID, clientVars, raceVars>>

\* handleUpdateNote after its await, then handleSaveNote and handleSubmit
\* after theirs
handleUpdateNote ==
    /\ \E i \in DOMAIN calls, lost \in BOOLEAN :
          /\ calls[i].op = "updateNote"
          /\ Settles(calls[i], lost)
          /\ IF Resolves(calls[i], lost)
             THEN /\ notesState' = [k \in DOMAIN notesState |->
                                      IF notesState[k].id = calls[i].id
                                      THEN calls[i].payload[1] ELSE notesState[k]]
                  /\ error' = error
                  /\ selectedNote' = calls[i].payload
                  /\ viewMode' = "view"
                  /\ saving' = FALSE
                  /\ calls' = Unmounted(Remove(calls, i))
                  /\ event' = Happened("updateNote", calls[i].id, TRUE, "note")
             ELSE /\ notesState' = notesState
                  /\ error' = Rejection(calls[i], lost)
                  /\ UNCHANGED <<selectedNote, viewMode>>
                  /\ saving' = IF calls[i].mounted THEN FALSE ELSE saving
                  /\ calls' = Remove(calls, i)
                  /\ event' = Happened("updateNote", calls[i].id, FALSE, "null")
    /\ UNCHANGED loading
    /\ response' = NoResponse
    /\ UNCHANGED <<note, now, probeVars, notes, nextID, clientVars, raceVars>>

\* handleDeleteNote after its await, then handleNoteDelete after its own:
\* selectedNote there is the one of the render the delete was clicked in.
handleDeleteNote ==
    /\ \E i \in DOMAIN calls, lost \in BOOLEAN :
          /\ calls[i].op = "deleteNote"
          /\ Settles(calls[i], lost)
          /\ IF Resolves(calls[i], lost)
             THEN /\ notesState' = LET kept(n) == n.id # calls[i].id
                                   IN  SelectSeq(notesState, kept)
                  /\ error' = error
                  /\ IF calls[i].selected = calls[i].id
                     THEN /\ selectedNote' = <<>>
                          /\ viewMode' = "view"
                          /\ saving' = FALSE
                          /\ calls' = Unmounted(Remove(calls, i))
                     ELSE /\ UNCHANGED <<selectedNote, viewMode, saving>>
                          /\ calls' = Remove(calls, i)
                  /\ event' = Happened("deleteNote", calls[i].id, TRUE, "true")
             ELSE /\ notesState' = notesState
                  /\ error' = Rejection(calls[i], lost)
                  /\ UNCHANGED <<selectedNote, viewMode, saving>>
                  /\ calls' = Remove(calls, i)
                  /\ event' = Happened("deleteNote", calls[i].id, FALSE, "false")
    /\ UNCHANGED loading
    /\ response' = NoResponse
    /\ UNCHANGED <<note, now, probeVars, notes, nextID, clientVars, raceVars>>

NextApp ==
    \/ handleNoteSelect
    \/ handleNoteEdit
    \/ handleNewNote
    \/ handleNoteDelete
    \/ handleSaveNote
    \/ handleCancel
    \/ clearError
    \/ Serve
    \/ loadNotes
    \/ handleCreateNote
    \/ handleUpdateNote
    \/ handleDeleteNote

SpecApp == Init /\ [][NextApp]_vars

\* C28: viewMode is view, edit or create; in the mode create selectedNote is
\* null and in the mode edit it is not null, whatever events arrive, also
\* while a save or a delete is in flight.
C28_ViewModeMatchesSelection ==
    /\ viewMode \in {"view", "edit", "create"}
    /\ viewMode = "create" => selectedNote = <<>>
    /\ viewMode = "edit" => selectedNote # <<>>

\* New note was clicked while the update of a note and the delete of that
\* note, clicked while it was edited, are both answered and not yet settled.
C28_Witness ==
    /\ viewMode = "create"
    /\ Len(calls) = 2
    /\ \E i, j \in DOMAIN calls :
          /\ calls[i].op = "updateNote"
          /\ calls[j].op = "deleteNote"
          /\ calls[j].selected = calls[j].id
          /\ calls[i].phase = "answered"
          /\ calls[j].phase = "answered"

\* C29: when a delete request has completed successfully, selectedNote is
\* not the deleted note, also when the note was selected or opened while the
\* delete was in flight.
C29_DeletedNoteNotSelected ==
    [][(/\ Len(calls') < Len(calls)
        /\ event'.op = "deleteNote"
        /\ event'.ok)
          => (selectedNote' = <<>> \/ selectedNote'[1].id # event'.id)]_vars

\* A create, update or delete of useNotes has settled in this step
SettledNow ==
    /\ Len(calls') < Len(calls)
    /\ event'.op \in {"createNote", "updateNote", "deleteNote"}

\* What a failed create, update or delete leaves: the list as it was, an
\* error, and null or false returned
FailureKeepsList ==
    /\ notesState' = notesState
    /\ error' # Null
    /\ event'.returned = IF event'.op = "deleteNote" THEN "false" ELSE "null"

\* What a successful create, update or delete does to the list: the created
\* note is appended, the notes with the id are replaced where they are by the
\* updated note, the notes with the id are removed.
SuccessChangesList ==
    /\ event'.op = "createNote"
          => /\ Len(notesState') = Len(notesState) + 1
             /\ SubSeq(notesState', 1, Len(notesState)) = notesState
             /\ notesState'[Len(notesState')].id = event'.id
             /\ notesState'[Len(notesState')].title = <<"a">>
    /\ event'.op = "updateNote"
          => /\ Len(notesState') = Len(notesState)
             /\ \A k \in 1..Len(notesState) :
                   IF notesState[k].id = event'.id
                   THEN notesState'[k].id = event'.id /\ notesState'[k].title = <<"b">>
                   ELSE notesState'[k] = notesState[k]
    /\ event'.op = "deleteNote"
          => /\ \A k \in 1..Len(notesState') : notesState'[k].id # event'.id
             /\ LET others(n) == n.id # event'.id
                IN  notesState' = SelectSeq(notesState, others)

====
